---- MODULE Spec2Model ----
(***************************************************************************)
(* A model of trufflehog-redactor: the replacement planner                 *)
(* (generate_replacements), the diff renderer (generate_diffs), the        *)
(* committer (apply_redactions) and the command line driver (main).        *)
(*                                                                         *)
(* Text is a sequence of one-character strings.  A file system maps path   *)
(* names to directory entries and inode numbers to inodes.                 *)
(***************************************************************************)
EXTENDS Integers, Sequences, FiniteSets, TLC

\* ------------------------------------------------------------------ bounds
MaxContentLen == 3
MaxSecretLen == 2
MaxFindings == 2

\* ------------------------------------------------------------------ text
Star == "*"
LF == "\n"
CR == "\r"
\* A lone surrogate code point: a str may hold it, UTF-8 cannot encode it.
Surrogate == "<surrogate>"

RECURSIVE StringsUpTo(_, _)
StringsUpTo(alphabet, n) ==
    IF n = 0 THEN {<<>>}
    ELSE LET shorter == StringsUpTo(alphabet, n - 1)
         IN  shorter \cup {Append(s, c) : s \in {t \in shorter : Len(t) = n - 1}, c \in alphabet}

Repeat(c, n) == [i \in 1..n |-> c]

\* s[i .. i+len(sub)-1] = sub
IsOccAt(s, sub, i) ==
    /\ i >= 1
    /\ i + Len(sub) - 1 <= Len(s)
    /\ SubSeq(s, i, i + Len(sub) - 1) = sub

\* Python: sub in s
Contains(s, sub) == \E i \in 1..(Len(s) - Len(sub) + 1) : IsOccAt(s, sub, i)

\* str.replace(old, new) for a non-empty old: the leftmost occurrence is
\* replaced, and the scan resumes right after it (occurrences never overlap).
RECURSIVE ReplaceFrom(_, _, _, _)
ReplaceFrom(s, old, new, i) ==
    IF i > Len(s) THEN <<>>
    ELSE IF IsOccAt(s, old, i) THEN new \o ReplaceFrom(s, old, new, i + Len(old))
    ELSE <<s[i]>> \o ReplaceFrom(s, old, new, i + 1)

\* str.replace(old, new) for an empty old: new goes before every character
\* and at the end.
RECURSIVE Intersperse(_, _, _)
Intersperse(s, new, i) ==
    IF i > Len(s) THEN new
    ELSE new \o <<s[i]>> \o Intersperse(s, new, i + 1)

\* A replace that stops after the first occurrence (str.replace(old, new, 1)).
RECURSIVE ReplaceFirstFrom(_, _, _, _)
ReplaceFirstFrom(s, old, new, i) ==
    IF i > Len(s) THEN <<>>
    ELSE IF IsOccAt(s, old, i) THEN new \o SubSeq(s, i + Len(old), Len(s))
    ELSE <<s[i]>> \o ReplaceFirstFrom(s, old, new, i + 1)

str_replace_first(s, old, new) ==
    IF old = <<>> THEN new \o s ELSE ReplaceFirstFrom(s, old, new, 1)

str_replace(s, old, new) ==
    IF old = <<>> THEN Intersperse(s, new, 1) ELSE ReplaceFrom(s, old, new, 1)

\* ---------------------------------------------------------------- findings
\* parser.Finding
Finding(p, s, d) == [file_path |-> p, secret |-> s, detector_name |-> d]

\* The keys of the dict _group_by_file builds, in insertion order: each
\* file_path once, at the place of its first finding.
RECURSIVE GroupKeysFrom(_, _, _)
GroupKeysFrom(findings, i, acc) ==
    IF i > Len(findings) THEN acc
    ELSE LET p == findings[i].file_path
         IN  GroupKeysFrom(findings, i + 1,
                 IF \E k \in 1..Len(acc) : acc[k] = p THEN acc ELSE Append(acc, p))

GroupKeys(findings) == GroupKeysFrom(findings, 1, <<>>)

\* grouped[file_path]: the findings of that path, in input order.
GroupOf(findings, p) == SelectSeq(findings, LAMBDA f : f.file_path = p)

\* One step of a stable sort by len(secret), longest first: f goes after
\* every element at least as long.
InsertByLenDesc(acc, f) ==
    LET k == Cardinality({i \in 1..Len(acc) : Len(acc[i].secret) >= Len(f.secret)})
    IN  SubSeq(acc, 1, k) \o <<f>> \o SubSeq(acc, k + 1, Len(acc))

RECURSIVE InsertAll(_, _, _)
InsertAll(findings, i, acc) ==
    IF i > Len(findings) THEN acc
    ELSE InsertAll(findings, i + 1, InsertByLenDesc(acc, findings[i]))

\* The findings left in the order they came in.
InInputOrder(findings) == findings

\* sorted(file_findings, key=lambda x: len(x.secret), reverse=True)
SortedByLenDesc(findings) == InsertAll(findings, 1, <<>>)

\* A default replacement of one asterisk, whatever the secret's length.
ReplacementOneStar(secret, placeholder) ==
    IF placeholder # <<>> THEN placeholder ELSE <<Star>>

\* placeholder if placeholder else "*" * len(f.secret)
Replacement(secret, placeholder) ==
    IF placeholder # <<>> THEN placeholder ELSE Repeat(Star, Len(secret))

\* The loop of generate_replacements over the sorted findings.
RECURSIVE ReplaceEach(_, _, _)
ReplaceEach(text, sorted, placeholder) ==
    IF sorted = <<>> THEN text
    ELSE ReplaceEach(str_replace(text, Head(sorted).secret,
                                 Replacement(Head(sorted).secret, placeholder)),
                     Tail(sorted), placeholder)

\* A loop that ends after its first turn: the longest secret only.
RedactLongestOnly(original, file_findings, placeholder) ==
    ReplaceEach(original, SubSeq(SortedByLenDesc(file_findings), 1, 1), placeholder)

\* redactor.py:40-44: the loop over the findings of the file, longest first.
Redact(original, file_findings, placeholder) ==
    ReplaceEach(original, SortedByLenDesc(file_findings), placeholder)

\* A planner that records every file it read, changed or not.
KeepAlways(original, redacted) == TRUE

\* if redacted != original: results[file_path] = (original, redacted)
KeepEntry(original, redacted) == redacted # original

\* ------------------------------------------------------------- file system
\* A byte sequence that is not valid UTF-8 is modelled by one marker element.
BadByte == "<0x80>"
NoPath == "<none>"
NoIno == 0

\* A directory entry: nothing, a name of an inode, a symbolic link, a directory.
NoEntry == [kind |-> "none", ino |-> NoIno, to |-> NoPath]
FileEntry(i) == [kind |-> "file", ino |-> i, to |-> NoPath]
LinkEntry(p) == [kind |-> "symlink", ino |-> NoIno, to |-> p]
DirEntry == [kind |-> "dir", ino |-> NoIno, to |-> NoPath]

\* An inode: its bytes, its permission bits, its owner, and whether this
\* process may open it for reading.
Node(data, mode, uid, readable) ==
    [data |-> data, mode |-> mode, uid |-> uid, readable |-> readable]

\* The path a name resolves to when symbolic links are followed (stat, open),
\* or NoPath: a missing name, a dangling link, a loop.
RECURSIVE ResolveN(_, _, _)
ResolveN(fs, p, n) ==
    IF p \notin DOMAIN fs.names THEN NoPath
    ELSE LET e == fs.names[p]
         IN  CASE e.kind = "none" -> NoPath
               [] e.kind = "symlink" -> IF n = 0 THEN NoPath ELSE ResolveN(fs, e.to, n - 1)
               [] OTHER -> p

Resolve(fs, p) == ResolveN(fs, p, Cardinality(DOMAIN fs.names))

\* os.path.islink: lstat, no link followed.
islink(fs, p) == p \in DOMAIN fs.names /\ fs.names[p].kind = "symlink"

\* os.path.isfile: stat, links followed, a regular file.
isfile(fs, p) == Resolve(fs, p) # NoPath /\ fs.names[Resolve(fs, p)].kind = "file"

\* os.stat succeeds (links followed).
CanStat(fs, p) == Resolve(fs, p) # NoPath

\* The inode os.stat and open reach through p.
InoOf(fs, p) == fs.names[Resolve(fs, p)].ino
NodeOf(fs, p) == fs.inodes[InoOf(fs, p)]

\* st_nlink
NLink(fs, i) == Cardinality({q \in DOMAIN fs.names : fs.names[q].kind = "file" /\ fs.names[q].ino = i})

\* open(file_path) succeeds: a regular file this process may read.
CanOpen(fs, p) == isfile(fs, p) /\ NodeOf(fs, p).readable

\* The bytes decode as UTF-8.
Decodable(data) == \A i \in 1..Len(data) : data[i] # BadByte

\* The text encodes as UTF-8.
Encodable(text) == \A i \in 1..Len(text) : text[i] # Surrogate

\* Text mode with newline=None on input: "\r\n" and "\r" both read as "\n".
RECURSIVE UniversalNewlines(_, _)
UniversalNewlines(data, i) ==
    IF i > Len(data) THEN <<>>
    ELSE IF data[i] = CR
         THEN <<LF>> \o UniversalNewlines(data,
                  IF i < Len(data) /\ data[i + 1] = LF THEN i + 2 ELSE i + 1)
         ELSE <<data[i]>> \o UniversalNewlines(data, i + 1)

\* fh.read() of open(file_path, encoding="utf-8") on decodable bytes.
ReadText(data) == UniversalNewlines(data, 1)

\* The bytes fh.write(text) produces on a POSIX system, where "\n" is written
\* as os.linesep = "\n": each character becomes its own encoding.
WriteData(text) == [i \in 1..Len(text) |-> text[i]]

\* What the contents of the file at p read as, for an observer that opens it
\* the way the planner does; Unreadable when it cannot.
Unreadable == <<"<unreadable>">>
ContentAt(fs, p) ==
    IF isfile(fs, p) /\ Decodable(NodeOf(fs, p).data)
    THEN ReadText(NodeOf(fs, p).data) ELSE Unreadable

\* ----------------------------------------------------------------- planner
\* _validate_file when nothing else touches the file system: the os.stat
\* that follows isfile then succeeds.
validate_file(fs, p) == ~islink(fs, p) /\ isfile(fs, p)

Entry(p, original, redacted) ==
    [file_path |-> p, original |-> original, redacted |-> redacted]

\* The body of the loop of generate_replacements for one group: the entry
\* added to results, if any.
PlanGroup(fs, p, file_findings, placeholder) ==
    IF ~validate_file(fs, p) THEN <<>>
    ELSE IF ~CanOpen(fs, p) THEN <<>>
    ELSE IF ~Decodable(NodeOf(fs, p).data) THEN <<>>
    ELSE LET original == ReadText(NodeOf(fs, p).data)
             redacted == Redact(original, file_findings, placeholder)
         IN  IF KeepEntry(original, redacted)
             THEN <<Entry(p, original, redacted)>> ELSE <<>>

RECURSIVE PlanGroups(_, _, _, _)
PlanGroups(fs, keys, findings, placeholder) ==
    IF keys = <<>> THEN <<>>
    ELSE PlanGroup(fs, Head(keys), GroupOf(findings, Head(keys)), placeholder)
         \o PlanGroups(fs, Tail(keys), findings, placeholder)

\* generate_replacements on a file system nothing else touches.  The dict it
\* returns is a sequence of entries, in insertion order.
generate_replacements(fs, findings, placeholder) ==
    PlanGroups(fs, GroupKeys(findings), findings, placeholder)

\* The entry of path p in a replacements mapping, as a sequence of 0 or 1.
EntriesOf(replacements, p) == SelectSeq(replacements, LAMBDA e : e.file_path = p)
HasEntry(replacements, p) == EntriesOf(replacements, p) # <<>>

\* ------------------------------------------------------------------- state
VARIABLES
    fs,            \* the file system
    fs0,           \* the file system when the run started (never changes)
    cli,           \* the parsed arguments: placeholder, no_confirm, dry_run
    tty,           \* whether /dev/tty can be opened
    tui,           \* run_tui's locals while the console is open: selected, cursor, top, reveal
    findings,      \* what parse_findings returned
    pc,            \* where main (and the function it is in) stands
    selected,      \* main's selected
    replacements,  \* the results dict of generate_replacements, as built so far
    gi,            \* generate_replacements: index of the group in hand
    ai,            \* apply_redactions: index of the entry in hand
    tmp,           \* apply_redactions: tmp_path of the entry in hand, or NoPath
    st,            \* apply_redactions: the os.stat result of the entry in hand
    count,         \* apply_redactions: count
    exc,           \* apply_redactions: the exception being propagated, or "none"
    envOps,        \* how many times another process changed the file system
    log,           \* what the run did to the world: calls made, files renamed
    arg,           \* the arguments of a function checked on its own
    ret            \* what that function returned

mainVars == <<fs, fs0, cli, tty, tui, findings, pc, selected, replacements, gi, ai, tmp, st,
              count, exc, envOps, log>>
pureVars == <<arg, ret>>
vars == <<mainVars, pureVars>>

NoFs == [names |-> <<>>, inodes |-> <<>>]
NoStat == [mode |-> "none", uid |-> "none"]
\* No line read yet at the prompt, no key that ended the console yet;
\* keyed is whether the console has read a key.
NoLine == <<"<none>">>
NoKey == "<none>"
NoLog == [applyCalls |-> 0, renamed |-> <<>>, answer |-> NoLine, key |-> NoKey, keyed |-> FALSE,
          preview |-> NoLine]
\* run_tui's locals before the console opens and after it returned.
NoTui == [selected |-> <<>>, cursor |-> 0, top |-> 0, reveal |-> FALSE]

NoCli == [placeholder |-> <<>>, no_confirm |-> FALSE, dry_run |-> FALSE]
NoArg == [fn |-> "none"]
NoRet == [stage |-> "none"]

\* The pipeline's variables while a function is checked on its own.
MainIdle ==
    /\ fs = NoFs /\ fs0 = NoFs /\ cli = NoCli /\ tty = FALSE /\ tui = NoTui
    /\ findings = <<>> /\ pc = "idle" /\ selected = <<>> /\ replacements = <<>>
    /\ gi = 0 /\ ai = 0 /\ tmp = NoPath /\ st = NoStat /\ count = 0
    /\ exc = "none" /\ envOps = 0 /\ log = NoLog

\* ------------------------------------------- the planner, checked on its own
PlanAlphabet == {"a", Star}
PlanPlaceholders == {<<>>, <<"#">>, <<"a">>}
PlanPath == "f1"

\* A file system holding one regular, readable file with the given bytes.
OneFileFs(p, data) ==
    [names |-> (p :> FileEntry(1)), inodes |-> (1 :> Node(data, "0644", "me", TRUE))]

\* All finding lists of 1..n findings of one file with secrets from a set.
RECURSIVE FindingLists(_, _, _)
FindingLists(p, secrets, n) ==
    IF n = 0 THEN {<<>>}
    ELSE LET shorter == FindingLists(p, secrets, n - 1)
         IN  shorter \cup {Append(l, Finding(p, s, "Generic")) :
                              l \in {t \in shorter : Len(t) = n - 1}, s \in secrets}

PlanInit ==
    /\ MainIdle
    /\ arg \in [fn : {"generate_replacements"},
                content : StringsUpTo(PlanAlphabet, MaxContentLen),
                findings : FindingLists(PlanPath,
                               StringsUpTo(PlanAlphabet, MaxSecretLen) \ {<<>>},
                               MaxFindings) \ {<<>>},
                placeholder : PlanPlaceholders]
    /\ ret = [stage |-> "start", first |-> <<>>, again |-> <<>>]

\* generate_replacements(findings, placeholder) on the file.
PlanCall ==
    /\ ret.stage = "start"
    /\ ret' = [ret EXCEPT !.stage = "planned",
                   !.first = generate_replacements(OneFileFs(PlanPath, arg.content),
                                 arg.findings, arg.placeholder)]
    /\ UNCHANGED <<mainVars, arg>>

\* The same call on a file that holds the redacted text of the first call.
PlanAgainCall ==
    /\ ret.stage = "planned"
    /\ ret.first # <<>>
    /\ ret' = [ret EXCEPT !.stage = "replanned",
                   !.again = generate_replacements(
                                 OneFileFs(PlanPath, WriteData(ret.first[1].redacted)),
                                 arg.findings, arg.placeholder)]
    /\ UNCHANGED <<mainVars, arg>>

PlanNext == PlanCall \/ PlanAgainCall

SpecPlan == PlanInit /\ [][PlanNext]_vars

\* The characters the planner writes in place of a secret.
ReplacementChars(placeholder) ==
    IF placeholder = <<>> THEN {Star} ELSE {placeholder[i] : i \in 1..Len(placeholder)}
Chars(s) == {s[i] : i \in 1..Len(s)}

\* The text the planner read from the file of SpecPlan.
PlanText == ReadText(arg.content)

\* Findings i and j of the call: A = secret i is a substring of the longer
\* B = secret j, and both occur in the file.
NestedPair(i, j) ==
    /\ Len(arg.findings[i].secret) < Len(arg.findings[j].secret)
    /\ Contains(arg.findings[j].secret, arg.findings[i].secret)
    /\ Contains(PlanText, arg.findings[i].secret)
    /\ Contains(PlanText, arg.findings[j].secret)

ReplacementApartFromSecrets ==
    \A i \in 1..Len(arg.findings) :
        ReplacementChars(arg.placeholder) \cap Chars(arg.findings[i].secret) = {}

C6_EntriesDiffer ==
    ret.stage = "planned" =>
        /\ \A k \in 1..Len(ret.first) : ret.first[k].original # ret.first[k].redacted
        /\ (\A i \in 1..Len(arg.findings) : ~Contains(PlanText, arg.findings[i].secret))
               => ret.first = <<>>

\* A non-empty file holding none of its two secrets was planned: no entry.
C6_Witness ==
    /\ ret.stage = "planned"
    /\ Len(PlanText) = MaxContentLen
    /\ Len(arg.findings) = 2
    /\ \A i \in 1..Len(arg.findings) : ~Contains(PlanText, arg.findings[i].secret)
    /\ ret.first = <<>>

\* ------------------------------------------------ the pipeline: its inputs
MaxRunFindings == 2

TargetPaths == {"f1", "f2", "ln"}
\* The names tempfile.mkstemp(dir=dir_name, suffix=".tmp") draws from.
TmpNames == <<"tmp1", "tmp2", "tmp3">>
TmpPaths == {TmpNames[i] : i \in 1..Len(TmpNames)}
Paths == TargetPaths \cup TmpPaths

RunSecret == <<"a">>
\* File contents: the secret twice, no secret, a CRLF line, bytes that are
\* not UTF-8.
RunData == {<<"a", "x", "a">>, <<"x">>, <<"a", CR, LF>>, <<"a", BadByte>>}
RunPlaceholders == {<<>>, <<"#">>, <<Surrogate>>}

\* f1 is a regular file; f2 is a regular file of its own (readable or not), a
\* second hard link to f1's inode, a directory, or missing; ln is a symbolic
\* link.
RunFs(d1, f2, r2, to) ==
    [names |-> [q \in Paths |->
                   CASE q = "f1" -> FileEntry(1)
                     [] q = "f2" -> f2
                     [] q = "ln" -> LinkEntry(to)
                     [] OTHER -> NoEntry],
     inodes |-> <<Node(d1, "0644", "me", TRUE), Node(<<"a">>, "0600", "other", r2)>>]
RunFileSystems ==
    {RunFs(d1, f2, TRUE, to) :
        d1 \in RunData, f2 \in {FileEntry(2), FileEntry(1), DirEntry, NoEntry},
        to \in {"f1", "f2"}}
    \cup {RunFs(d1, FileEntry(2), FALSE, to) : d1 \in RunData, to \in {"f1", "f2"}}

RECURSIVE FindingListsOver(_, _)
FindingListsOver(items, n) ==
    IF n = 0 THEN {<<>>}
    ELSE LET shorter == FindingListsOver(items, n - 1)
         IN  shorter \cup {Append(l, f) : l \in {t \in shorter : Len(t) = n - 1}, f \in items}

\* parse_findings returns no two findings with the same (file_path, secret).
RunDetector(q) == IF q = "f2" THEN "AWS" ELSE "Generic"
RunFindings ==
    {l \in FindingListsOver({Finding(q, RunSecret, RunDetector(q)) : q \in TargetPaths},
                            MaxRunFindings) :
        /\ l # <<>>
        /\ \A i, j \in 1..Len(l) : i # j => l[i] # l[j]}

PureIdle == arg = NoArg /\ ret = NoRet

Init ==
    /\ PureIdle
    /\ fs \in RunFileSystems
    /\ fs0 = fs
    /\ cli \in [placeholder : RunPlaceholders, no_confirm : BOOLEAN, dry_run : BOOLEAN]
    /\ tty \in (IF cli.no_confirm THEN {TRUE} ELSE BOOLEAN)
    /\ tui = NoTui
    /\ findings \in RunFindings
    /\ pc = "run_tui"
    /\ selected = <<>> /\ replacements = <<>>
    /\ gi = 0 /\ ai = 0 /\ tmp = NoPath /\ st = NoStat /\ count = 0
    /\ exc = "none" /\ envOps = 0 /\ log = NoLog

\* ------------------------------------------------- the selection console
\* The keys getch returns: the two arrow keys, the letters the console acts
\* on, and one it does not know.
KEY_UP == "KEY_UP"
KEY_DOWN == "KEY_DOWN"
Keys == {KEY_UP, "k", KEY_DOWN, "j", " ", "a", "t", "r", LF, "q", "x"}

\* tui.py:11-12
HEADER_ROWS == 3
BOTTOM_RESERVE == 1
\* The heights stdscr.getmaxyx() reports when the console of a run draws:
\* terminals with one or two rows for the list.
TermHeights == {5, 6}
\* tui.py:47-49: visible = max_y - list_start - _BOTTOM_RESERVE
TuiVisible == {max_y - HEADER_ROWS - BOTTOM_RESERVE : max_y \in TermHeights}

\* A console that opens with nothing selected.
NewTuiNoneSelected(findings_) ==
    [selected |-> [i \in 1..Len(findings_) |-> FALSE], cursor |-> 0, top |-> 0,
     reveal |-> FALSE]

\* tui.py:36-39: every finding selected, cursor and scroll offset at the
\* top, secrets masked.
NewTui(findings_) ==
    [selected |-> [i \in 1..Len(findings_) |-> TRUE], cursor |-> 0, top |-> 0,
     reveal |-> FALSE]

\* tui.py:104-110
adjust_scroll(cursor, top, visible) ==
    IF cursor < top THEN cursor
    ELSE IF cursor >= top + visible THEN cursor - visible + 1
    ELSE top

Min(x, y) == IF x <= y THEN x ELSE y
Max(x, y) == IF x >= y THEN x ELSE y

\* tui.py:209: cursor = max(0, cursor - 1)
MoveUp(findings_, cursor) == Max(0, cursor - 1)
\* A move down that does not stop at the last finding.
MoveDownUnclamped(findings_, cursor) == cursor + 1
\* tui.py:211: cursor = min(len(findings) - 1, cursor + 1)
MoveDown(findings_, cursor) == Min(Len(findings_) - 1, cursor + 1)

\* A toggle that flips the flag at the cursor and every flag below it.
ToggleThrough(selected_, cursor) ==
    [i \in 1..Len(selected_) |-> IF i >= cursor + 1 THEN ~selected_[i] ELSE selected_[i]]

\* tui.py:213: selected[cursor] = not selected[cursor] (cursor counts from 0)
Toggle(selected_, cursor) == [selected_ EXCEPT ![cursor + 1] = ~@]

\* A toggle-all that deselects as soon as one finding is selected.
ToggleAllAny(selected_) ==
    IF \E i \in 1..Len(selected_) : selected_[i]
    THEN [i \in 1..Len(selected_) |-> FALSE]
    ELSE [i \in 1..Len(selected_) |-> TRUE]

\* tui.py:215-218: all selected -> none selected, else all selected.
ToggleAll(selected_) ==
    IF \A i \in 1..Len(selected_) : selected_[i]
    THEN [i \in 1..Len(selected_) |-> FALSE]
    ELSE [i \in 1..Len(selected_) |-> TRUE]

\* A toggle-category that deselects as soon as one finding of the detector
\* is selected.
ToggleCategoryAny(findings_, selected_, cursor) ==
    LET cat == findings_[cursor + 1].detector_name
        indices == {i \in 1..Len(findings_) : findings_[i].detector_name = cat}
    IN  IF \E i \in indices : selected_[i]
        THEN [i \in 1..Len(selected_) |-> IF i \in indices THEN FALSE ELSE selected_[i]]
        ELSE [i \in 1..Len(selected_) |-> IF i \in indices THEN TRUE ELSE selected_[i]]

\* tui.py:220-227: the same over the findings of the cursor's detector.
ToggleCategory(findings_, selected_, cursor) ==
    LET cat == findings_[cursor + 1].detector_name
        indices == {i \in 1..Len(findings_) : findings_[i].detector_name = cat}
    IN  IF \A i \in indices : selected_[i]
        THEN [i \in 1..Len(selected_) |-> IF i \in indices THEN FALSE ELSE selected_[i]]
        ELSE [i \in 1..Len(selected_) |-> IF i \in indices THEN TRUE ELSE selected_[i]]

\* tui.py:231: [f for f, s in zip(findings, selected) if s]
RECURSIVE ZipSelected(_, _, _)
ZipSelected(findings_, selected_, i) ==
    IF i > Min(Len(findings_), Len(selected_)) THEN <<>>
    ELSE (IF selected_[i] THEN <<findings_[i]>> ELSE <<>>)
         \o ZipSelected(findings_, selected_, i + 1)
\* A confirm that returns every finding, whatever the flags.
ConfirmAll(findings_, selected_) == findings_
ConfirmResult(findings_, selected_) == ZipSelected(findings_, selected_, 1)

\* A quit that returns the flagged findings, as confirm does.
QuitKeepsSelection(findings_, selected_) == ZipSelected(findings_, selected_, 1)

\* tui.py:233: quit returns the empty list.
QuitResult(findings_, selected_) == <<>>

\* tui.py:196-235.  What _handle_key returns, with the list it changed in
\* place: returned is "result is not None".
handle_key(key, findings_, selected_, cursor, reveal) ==
    LET same == [cursor |-> cursor, reveal |-> reveal, selected |-> selected_,
                 returned |-> FALSE, result |-> <<>>]
    IN  CASE key \in {KEY_UP, "k"} -> [same EXCEPT !.cursor = MoveUp(findings_, cursor)]
          [] key \in {KEY_DOWN, "j"} -> [same EXCEPT !.cursor = MoveDown(findings_, cursor)]
          [] key = " " -> [same EXCEPT !.selected = Toggle(selected_, cursor)]
          [] key = "a" -> [same EXCEPT !.selected = ToggleAll(selected_)]
          [] key = "t" -> [same EXCEPT !.selected = ToggleCategory(findings_, selected_, cursor)]
          [] key = "r" -> [same EXCEPT !.reveal = ~reveal]
          [] key = LF -> [same EXCEPT !.returned = TRUE,
                                      !.result = ConfirmResult(findings_, selected_)]
          [] key = "q" -> [same EXCEPT !.returned = TRUE,
                                      !.result = QuitResult(findings_, selected_)]
          [] OTHER -> same

\* What the key does to the console as it stands.
KeyResult(key) == handle_key(key, findings, tui.selected, tui.cursor, tui.reveal)

\* ------------------------------------------------------ main: the selection
applyVars == <<ai, tmp, st, count, exc>>

tuiFrame == <<fs, fs0, cli, tty, findings, replacements, applyVars, envOps, pureVars>>

\* cli.py:66-72: main's selected is set; an empty selection ends the run,
\* otherwise generate_replacements starts on its first group.
Select(sel) ==
    /\ selected' = sel
    /\ IF sel = <<>> THEN pc' = "done" /\ gi' = gi
       ELSE pc' = "v_islink" /\ gi' = 1

\* A run_tui that opens the console whether or not there is a terminal.
RunTuiNeedsNoTty ==
    /\ pc = "run_tui"
    /\ IF cli.no_confirm THEN Select(findings) /\ tui' = tui
       ELSE /\ tui' = NewTui(findings)
            /\ pc' = "tui_draw"
            /\ UNCHANGED <<selected, gi>>
    /\ UNCHANGED <<log, tuiFrame>>

\* cli.py:66 and tui.py:29-39.  selected = findings if args.no_confirm else
\* run_tui(findings): run_tui returns [] without a terminal, else it opens
\* the console.
RunTui ==
    /\ pc = "run_tui"
    /\ IF cli.no_confirm THEN Select(findings) /\ tui' = tui
       ELSE IF ~tty THEN Select(<<>>) /\ tui' = tui
       ELSE /\ tui' = NewTui(findings)
            /\ pc' = "tui_draw"
            /\ UNCHANGED <<selected, gi>>
    /\ UNCHANGED <<log, tuiFrame>>

\* tui.py:47-58: the top of one turn of the loop, where the scroll offset
\* follows the cursor and the list is drawn.
TuiDraw ==
    /\ pc = "tui_draw"
    /\ \E visible \in TuiVisible :
          tui' = [tui EXCEPT !.top = adjust_scroll(tui.cursor, tui.top, visible)]
    /\ pc' = "tui_key"
    /\ UNCHANGED <<selected, gi, log, tuiFrame>>

\* tui.py:60-69: a key is read and handled; a result ends run_tui, whose
\* locals go, and main goes on with it.
TuiKey ==
    /\ pc = "tui_key"
    /\ \E key \in Keys :
          LET r == KeyResult(key)
          IN  IF r.returned
              THEN /\ Select(r.result)
                   /\ tui' = NoTui
                   /\ log' = [log EXCEPT !.key = key, !.keyed = TRUE]
              ELSE /\ tui' = [tui EXCEPT !.selected = r.selected, !.cursor = r.cursor,
                                         !.reveal = r.reveal]
                   /\ pc' = "tui_draw"
                   /\ log' = [log EXCEPT !.keyed = TRUE]
                   /\ UNCHANGED <<selected, gi>>
    /\ UNCHANGED tuiFrame

\* ------------------------------------------- generate_replacements, by step
\* grouped.items(): the group in hand.
GroupPath == GroupKeys(selected)[gi]

\* The loop ends before its last groups (a break).
Break ==
    /\ gi' = Len(GroupKeys(selected)) + 1
    /\ pc' = "planned"

\* continue: on to the next group, or out of the loop to return results.
Continue ==
    /\ gi' = gi + 1
    /\ pc' = IF gi + 1 > Len(GroupKeys(selected)) THEN "planned" ELSE "v_islink"

planFrame == <<fs, fs0, cli, tty, tui, findings, selected, applyVars, envOps, log, pureVars>>

\* The symlink test left out: every path goes on to isfile.
ValidateIslinkSkipped ==
    /\ pc = "v_islink"
    /\ pc' = "v_isfile" /\ gi' = gi
    /\ UNCHANGED <<replacements, planFrame>>

\* redactor.py:62-64: a symbolic link is not valid, the group is skipped.
ValidateIslink ==
    /\ pc = "v_islink"
    /\ IF islink(fs, GroupPath) THEN Continue ELSE pc' = "v_isfile" /\ gi' = gi
    /\ UNCHANGED <<replacements, planFrame>>

\* redactor.py:65-67: not a regular file, the group is skipped.
ValidateIsfile ==
    /\ pc = "v_isfile"
    /\ IF ~isfile(fs, GroupPath) THEN Continue ELSE pc' = "v_stat" /\ gi' = gi
    /\ UNCHANGED <<replacements, planFrame>>

\* A validation that turns away a file that has more than one hard link.
ValidateStatRefusesLinks ==
    /\ pc = "v_stat"
    /\ IF ~CanStat(fs, GroupPath) THEN pc' = "raised" /\ gi' = gi
       ELSE IF NLink(fs, InoOf(fs, GroupPath)) > 1 THEN Continue
       ELSE pc' = "read" /\ gi' = gi
    /\ UNCHANGED <<replacements, planFrame>>

\* redactor.py:68-74: os.stat outside any try: if the path no longer
\* resolves, FileNotFoundError leaves _validate_file, generate_replacements
\* (line 27 is outside its try) and main.
ValidateStat ==
    /\ pc = "v_stat"
    /\ pc' = IF CanStat(fs, GroupPath) THEN "read" ELSE "raised"
    /\ UNCHANGED <<gi, replacements, planFrame>>

\* redactor.py:30-47: open and read (OSError and UnicodeDecodeError skip the
\* group), the replacements longest first, the entry if the text changed.
ReadAndRedact ==
    /\ pc = "read"
    /\ replacements' =
          IF CanOpen(fs, GroupPath) /\ Decodable(NodeOf(fs, GroupPath).data)
          THEN LET original == ReadText(NodeOf(fs, GroupPath).data)
                   redacted == Redact(original, GroupOf(selected, GroupPath),
                                      cli.placeholder)
               IN  IF KeepEntry(original, redacted)
                   THEN Append(replacements, Entry(GroupPath, original, redacted))
                   ELSE replacements
          ELSE replacements
    /\ Continue
    /\ UNCHANGED planFrame

\* ----------------------------------------------------------- generate_diffs
\* tui.py:20: visible: int = 4
MaskVisible == 4

\* secret[:visible] and secret[-visible:] for visible >= 0, as Python slices:
\* -0 is 0, so secret[-0:] is the whole string.
SliceTo(secret, visible) == SubSeq(secret, 1, Min(visible, Len(secret)))
SliceLast(secret, visible) ==
    IF visible = 0 THEN secret
    ELSE SubSeq(secret, Max(Len(secret) - visible, 0) + 1, Len(secret))

\* tui.py:20-24
mask_secret(secret, visible) ==
    IF Len(secret) <= visible * 2 THEN Repeat(Star, Len(secret))
    ELSE SliceTo(secret, visible) \o Repeat(Star, Len(secret) - visible * 2)
         \o SliceLast(secret, visible)

\* The characters of a path name, and the order sorted() puts the paths in.
PathText(p) ==
    CASE p = "f1" -> <<"f", "1">>
      [] p = "f2" -> <<"f", "2">>
      [] p = "ln" -> <<"l", "n">>
      [] OTHER -> <<"t", "m", "p">>
PathOrder == <<"f1", "f2", "ln", "tmp1", "tmp2", "tmp3">>

\* sorted(replacements.items()): the entries by ascending file_path.
RECURSIVE SortedEntriesFrom(_, _)
SortedEntriesFrom(replacements_, k) ==
    IF k > Len(PathOrder) THEN <<>>
    ELSE EntriesOf(replacements_, PathOrder[k]) \o SortedEntriesFrom(replacements_, k + 1)
SortedEntries(replacements_) == SortedEntriesFrom(replacements_, 1)

\* str.splitlines(keepends=True) over "\n", "\r\n" and "\r".
RECURSIVE SplitLinesFrom(_, _, _)
SplitLinesFrom(text, i, line) ==
    IF i > Len(text) THEN (IF line = <<>> THEN <<>> ELSE <<line>>)
    ELSE IF text[i] = CR /\ i < Len(text) /\ text[i + 1] = LF
         THEN <<line \o <<CR, LF>>>> \o SplitLinesFrom(text, i + 2, <<>>)
    ELSE IF text[i] = LF \/ text[i] = CR
         THEN <<Append(line, text[i])>> \o SplitLinesFrom(text, i + 1, <<>>)
    ELSE SplitLinesFrom(text, i + 1, Append(line, text[i]))
splitlines(text) == SplitLinesFrom(text, 1, <<>>)

\* The decimal digits of a natural number.
RECURSIVE Decimal(_)
Decimal(n) ==
    LET digit == <<"0", "1", "2", "3", "4", "5", "6", "7", "8", "9">>[(n % 10) + 1]
    IN  IF n < 10 THEN <<digit>> ELSE Append(Decimal(n \div 10), digit)

\* difflib._format_range_unified(start, stop)
FormatRange(start, stop) ==
    IF stop - start = 1 THEN Decimal(start + 1)
    ELSE IF stop - start = 0 THEN Decimal(start) \o <<",">> \o Decimal(0)
    ELSE Decimal(start + 1) \o <<",">> \o Decimal(stop - start)

\* difflib: lines of context around a change (n=3).
DiffContext == 3

\* How many leading (trailing) lines two line lists share.
RECURSIVE CommonPrefix(_, _, _)
CommonPrefix(a, b, k) ==
    IF k < Len(a) /\ k < Len(b) /\ a[k + 1] = b[k + 1] THEN CommonPrefix(a, b, k + 1) ELSE k
RECURSIVE CommonSuffix(_, _, _, _)
CommonSuffix(a, b, pre, k) ==
    IF k < Len(a) - pre /\ k < Len(b) - pre /\ a[Len(a) - k] = b[Len(b) - k]
    THEN CommonSuffix(a, b, pre, k + 1) ELSE k

RECURSIVE Prefixed(_, _, _, _)
Prefixed(mark, lines, from, to) ==
    IF from > to THEN <<>> ELSE <<mark>> \o lines[from] \o Prefixed(mark, lines, from + 1, to)

\* "".join(difflib.unified_diff(a, b, fromfile=path, tofile=path)) for two
\* line lists that differ in one run of lines (the lines before and after it
\* are the same in both): nothing for equal lists; else the two header lines,
\* one hunk header, up to three lines of context on each side, the old lines
\* with "-" and the new lines with "+".  Every line keeps its own ending.
unified_diff(a, b, path) ==
    IF a = b THEN <<>>
    ELSE LET pre == CommonPrefix(a, b, 0)
             suf == CommonSuffix(a, b, pre, 0)
             lead == Min(DiffContext, pre)
             trail == Min(DiffContext, suf)
         IN  <<"-", "-", "-", " ">> \o PathText(path) \o <<LF>>
             \o <<"+", "+", "+", " ">> \o PathText(path) \o <<LF>>
             \o <<"@", "@", " ", "-">> \o FormatRange(pre - lead, Len(a) - suf + trail)
             \o <<" ", "+">> \o FormatRange(pre - lead, Len(b) - suf + trail)
             \o <<" ", "@", "@", LF>>
             \o Prefixed(" ", a, pre - lead + 1, pre)
             \o Prefixed("-", a, pre + 1, Len(a) - suf)
             \o Prefixed("+", b, pre + 1, Len(b) - suf)
             \o Prefixed(" ", a, Len(a) - suf + 1, Len(a) - suf + trail)

\* redactor.py:102-105: each secret of the file's findings, longest first,
\* replaced by its mask.
RECURSIVE MaskEach(_, _)
MaskEach(text, sorted) ==
    IF sorted = <<>> THEN text
    ELSE MaskEach(str_replace(text, Head(sorted).secret,
                              mask_secret(Head(sorted).secret, MaskVisible)),
                  Tail(sorted))

\* redactor.py:92-105: what is shown of one side of an entry.
Display(text, path, findings_) ==
    IF findings_ = <<>> THEN text
    ELSE MaskEach(text, SortedByLenDesc(GroupOf(findings_, path)))

\* redactor.py:107-113: the diff block of one entry.
DiffPart(e, findings_) ==
    unified_diff(splitlines(Display(e.original, e.file_path, findings_)),
                 splitlines(Display(e.redacted, e.file_path, findings_)),
                 e.file_path)

\* "\n".join(diff_parts)
RECURSIVE JoinParts(_, _)
JoinParts(entries, findings_) ==
    IF entries = <<>> THEN <<>>
    ELSE IF Len(entries) = 1 THEN DiffPart(entries[1], findings_)
    ELSE DiffPart(entries[1], findings_) \o <<LF>> \o JoinParts(Tail(entries), findings_)

\* redactor.py:77-115
generate_diffs(replacements_, findings_) ==
    JoinParts(SortedEntries(replacements_), findings_)

\* ------------------------------------------------- main: after the planning
\* main's diff_output (cli.py:78)
DiffOutput == generate_diffs(replacements, selected)

mainFrame == <<fs, fs0, cli, tty, tui, findings, selected, replacements, gi, envOps, pureVars>>

\* cli.py:74-80: nothing planned ends the run; else the diff is rendered and
\* the run goes to the confirmation, or past it under --no-confirm.
Planned ==
    /\ pc = "planned"
    /\ pc' = IF replacements = <<>> THEN "done"
             ELSE IF cli.no_confirm THEN "dry_run" ELSE "confirm"
    /\ UNCHANGED <<mainFrame, applyVars, log>>

\* The lines tty.readline() may return: y with its newline, Y with blanks
\* around it, a longer word, two words, no, an empty line, and end of input.
TtyLines ==
    {<<"y", LF>>, <<" ", "Y", " ", CR, LF>>, <<"y", "e", "s", LF>>,
     <<"y", " ", "y", LF>>, <<"n", LF>>, <<LF>>, <<>>}

\* str.strip(): white space off both ends.
Whitespace == {" ", LF, CR, "\t"}
RECURSIVE lstrip(_)
lstrip(t) == IF t # <<>> /\ Head(t) \in Whitespace THEN lstrip(Tail(t)) ELSE t
RECURSIVE rstrip(_)
rstrip(t) ==
    IF t # <<>> /\ t[Len(t)] \in Whitespace THEN rstrip(SubSeq(t, 1, Len(t) - 1)) ELSE t
strip(t) == rstrip(lstrip(t))

\* str.lower(), on the letters of TtyLines.
LowerChar(c) ==
    CASE c = "Y" -> "y" [] c = "N" -> "n" [] c = "E" -> "e" [] c = "S" -> "s" [] OTHER -> c
lower(t) == [i \in 1..Len(t) |-> LowerChar(t[i])]

\* An answer that begins with y.
AnswerStartsWithY(line) ==
    lower(strip(line)) # <<>> /\ Head(lower(strip(line))) = "y"

\* cli.py:104 and 112: answer = tty.readline().strip().lower(); answer == "y"
AnswerIsYes(line) == lower(strip(line)) = <<"y">>

\* cli.py:94-112 and 80-82: the preview is printed (print raises
\* UnicodeEncodeError on text UTF-8 cannot encode), /dev/tty is opened
\* (sys.exit(1) without one) and one line is read: "y" goes on, anything
\* else ends the run.
ConfirmChanges ==
    /\ pc = "confirm"
    /\ \E line \in TtyLines :
          IF ~Encodable(DiffOutput) THEN pc' = "raised" /\ log' = log
          ELSE IF ~tty THEN pc' = "exit" /\ log' = [log EXCEPT !.preview = DiffOutput]
          ELSE /\ pc' = (IF AnswerIsYes(line) THEN "dry_run" ELSE "done")
               /\ log' = [log EXCEPT !.preview = DiffOutput, !.answer = line]
    /\ UNCHANGED <<mainFrame, applyVars>>

\* A dry run that is honoured only under --no-confirm.
DryRunOnlyUnconfirmed ==
    /\ pc = "dry_run"
    /\ IF cli.dry_run /\ cli.no_confirm
       THEN /\ pc' = (IF ~Encodable(DiffOutput) THEN "raised" ELSE "done")
            /\ UNCHANGED <<applyVars, log>>
       ELSE /\ pc' = (IF replacements = <<>> THEN "done" ELSE "mkstemp")
            /\ log' = [log EXCEPT !.applyCalls = @ + 1]
            /\ ai' = 1 /\ count' = 0
            /\ UNCHANGED <<tmp, st, exc>>
    /\ UNCHANGED mainFrame

\* cli.py:84-90: under --dry-run the diff is printed (when it was not shown
\* for confirmation) and the run ends; else apply_redactions is called
\* (redactor.py:120-121: count = 0, the first entry).
DryRunOrApply ==
    /\ pc = "dry_run"
    /\ IF cli.dry_run
       THEN /\ pc' = (IF cli.no_confirm /\ ~Encodable(DiffOutput) THEN "raised" ELSE "done")
            /\ UNCHANGED <<applyVars, log>>
       ELSE /\ pc' = (IF replacements = <<>> THEN "done" ELSE "mkstemp")
            /\ log' = [log EXCEPT !.applyCalls = @ + 1]
            /\ ai' = 1 /\ count' = 0
            /\ UNCHANGED <<tmp, st, exc>>
    /\ UNCHANGED mainFrame

\* ------------------------------------------------ apply_redactions, by step
\* replacements.items(): the entry in hand.
Target == replacements[ai]

WithName(f, p, entry) == [f EXCEPT !.names[p] = entry]
WithData(f, i, data) == [f EXCEPT !.inodes[i].data = data]

\* st_mode and st_uid of what p resolves to.
StatOf(f, p) ==
    IF f.names[Resolve(f, p)].kind = "dir" THEN [mode |-> "0755", uid |-> "me"]
    ELSE [mode |-> NodeOf(f, p).mode, uid |-> NodeOf(f, p).uid]

\* The name mkstemp creates: one not in use.
FreeTmp == TmpNames[CHOOSE k \in 1..Len(TmpNames) :
                        /\ fs.names[TmpNames[k]].kind = "none"
                        /\ \A j \in 1..(k - 1) : fs.names[TmpNames[j]].kind # "none"]

\* redactor.py:139-142 after a caught OSError, and after count += 1: the
\* next entry, or return count and main's report (cli.py:90-91).
NextEntry ==
    /\ ai' = ai + 1
    /\ pc' = IF ai + 1 > Len(replacements) THEN "done" ELSE "mkstemp"
    /\ tmp' = NoPath /\ st' = NoStat /\ exc' = "none"

\* An OSError raised inside the inner try (redactor.py:125-133).
RaiseInTry(e) == pc' = "cleanup" /\ exc' = e

applyFrame == <<fs0, cli, tty, tui, findings, selected, replacements, gi, envOps, pureVars>>

\* redactor.py:124: tempfile.mkstemp creates an empty file of mode 0600 owned
\* by this process, in the target's directory; an OSError is caught by the
\* outer handler (no temporary file exists yet).
ApplyMkstemp ==
    /\ pc = "mkstemp"
    /\ \E ok \in BOOLEAN :
          IF ok
          THEN /\ fs' = [names |-> [fs.names EXCEPT ![FreeTmp] = FileEntry(Len(fs.inodes) + 1)],
                         inodes |-> Append(fs.inodes, Node(<<>>, "0600", "me", TRUE))]
               /\ tmp' = FreeTmp
               /\ pc' = "write"
               /\ UNCHANGED <<ai, st, exc>>
          ELSE /\ NextEntry
               /\ UNCHANGED fs
    /\ UNCHANGED <<count, log, applyFrame>>

\* A committer that writes the redacted text into the target itself.
ApplyWriteInPlace ==
    /\ pc = "write"
    /\ \E n \in 0..(Len(Target.redacted) + 1) :
          /\ fs' = IF isfile(fs, Target.file_path)
                   THEN WithData(fs, InoOf(fs, Target.file_path),
                            SubSeq(WriteData(Target.redacted), 1, Min(n, Len(Target.redacted))))
                   ELSE fs
          /\ IF n > Len(Target.redacted) THEN pc' = "stat" /\ exc' = exc
             ELSE RaiseInTry("OSError")
    /\ UNCHANGED <<ai, tmp, st, count, log, applyFrame>>

\* redactor.py:126-127: the text is encoded and written to the temporary
\* file and the file is closed.  Text UTF-8 cannot encode raises
\* UnicodeEncodeError before a byte is written; an OSError (a full disk)
\* leaves any prefix of the bytes in the temporary file.
ApplyWrite ==
    /\ pc = "write"
    /\ IF ~Encodable(Target.redacted)
       THEN /\ RaiseInTry("UnicodeEncodeError")
            /\ UNCHANGED fs
       ELSE \E n \in 0..(Len(Target.redacted) + 1) :
               /\ fs' = WithData(fs, fs.names[tmp].ino,
                            SubSeq(WriteData(Target.redacted), 1, Min(n, Len(Target.redacted))))
               /\ IF n > Len(Target.redacted) THEN pc' = "stat" /\ exc' = exc
                  ELSE RaiseInTry("OSError")
    /\ UNCHANGED <<ai, tmp, st, count, log, applyFrame>>

\* redactor.py:129: st = os.stat(file_path), links followed.
ApplyStat ==
    /\ pc = "stat"
    /\ \E ok \in BOOLEAN :
          IF ok /\ CanStat(fs, Target.file_path)
          THEN /\ st' = StatOf(fs, Target.file_path)
               /\ pc' = "chmod" /\ exc' = exc
          ELSE /\ RaiseInTry("OSError")
               /\ st' = st
    /\ UNCHANGED <<fs, ai, tmp, count, log, applyFrame>>

\* redactor.py:130: os.chmod(tmp_path, st.st_mode)
ApplyChmod ==
    /\ pc = "chmod"
    /\ \E ok \in BOOLEAN :
          IF ok
          THEN /\ fs' = [fs EXCEPT !.inodes[fs.names[tmp].ino].mode = st.mode]
               /\ pc' = "chown" /\ exc' = exc
          ELSE /\ RaiseInTry("OSError")
               /\ UNCHANGED fs
    /\ UNCHANGED <<ai, tmp, st, count, log, applyFrame>>

\* A chown whose PermissionError is not suppressed.
ApplyChownStrict ==
    /\ pc = "chown"
    /\ \E outcome \in {"ok", "PermissionError", "OSError"} :
          /\ fs' = IF outcome = "ok"
                   THEN [fs EXCEPT !.inodes[fs.names[tmp].ino].uid = st.uid] ELSE fs
          /\ IF outcome = "ok" THEN pc' = "replace" /\ exc' = exc
             ELSE RaiseInTry(outcome)
    /\ UNCHANGED <<ai, tmp, st, count, log, applyFrame>>

\* redactor.py:131-132: os.chown(tmp_path, st.st_uid, st.st_gid); a
\* PermissionError is suppressed, another OSError is not.
ApplyChown ==
    /\ pc = "chown"
    /\ \E outcome \in {"ok", "PermissionError", "OSError"} :
          /\ fs' = IF outcome = "ok"
                   THEN [fs EXCEPT !.inodes[fs.names[tmp].ino].uid = st.uid] ELSE fs
          /\ IF outcome = "OSError" THEN RaiseInTry("OSError")
             ELSE pc' = "replace" /\ exc' = exc
    /\ UNCHANGED <<ai, tmp, st, count, log, applyFrame>>

\* A commit that copies the temporary file's bytes into the target and
\* removes the temporary file.
ApplyReplaceByCopy ==
    /\ pc = "replace"
    /\ \E ok \in BOOLEAN :
          IF ok /\ isfile(fs, Target.file_path)
          THEN /\ fs' = WithName(WithData(fs, InoOf(fs, Target.file_path),
                                          fs.inodes[fs.names[tmp].ino].data),
                                 tmp, NoEntry)
               /\ count' = count + 1
               /\ log' = [log EXCEPT !.renamed = Append(@, Target.file_path)]
               /\ NextEntry
          ELSE /\ RaiseInTry("OSError")
               /\ UNCHANGED <<fs, count, log, ai, tmp, st>>
    /\ UNCHANGED applyFrame

\* redactor.py:133 and 142: os.replace(tmp_path, file_path) puts the
\* temporary file's inode under the target's name in one step (it fails on
\* a directory), and the entry is counted.
ApplyReplace ==
    /\ pc = "replace"
    /\ \E ok \in BOOLEAN :
          IF ok /\ fs.names[Target.file_path].kind # "dir"
          THEN /\ fs' = [fs EXCEPT !.names[Target.file_path] = fs.names[tmp],
                                   !.names[tmp] = NoEntry]
               /\ count' = count + 1
               /\ log' = [log EXCEPT !.renamed = Append(@, Target.file_path)]
               /\ NextEntry
          ELSE /\ RaiseInTry("OSError")
               /\ UNCHANGED <<fs, count, log, ai, tmp, st>>
    /\ UNCHANGED applyFrame

\* redactor.py:134-141: os.unlink(tmp_path) with its own OSError suppressed,
\* then the exception is raised again: the outer handler catches an OSError
\* and goes on to the next entry; anything else leaves apply_redactions.
ApplyCleanup ==
    /\ pc = "cleanup"
    /\ \E unlinked \in BOOLEAN :
          fs' = IF unlinked THEN WithName(fs, tmp, NoEntry) ELSE fs
    /\ IF exc \in {"OSError", "PermissionError"} THEN NextEntry
       ELSE pc' = "raised" /\ UNCHANGED <<ai, tmp, st, exc>>
    /\ UNCHANGED <<count, log, applyFrame>>

\* ------------------------------------------------------- the specification
Next ==
    \/ RunTui
    \/ TuiDraw
    \/ TuiKey
    \/ ValidateIslink
    \/ ValidateIsfile
    \/ ValidateStat
    \/ ReadAndRedact
    \/ Planned
    \/ ConfirmChanges
    \/ DryRunOrApply
    \/ ApplyMkstemp
    \/ ApplyWrite
    \/ ApplyStat
    \/ ApplyChmod
    \/ ApplyChown
    \/ ApplyReplace
    \/ ApplyCleanup

Spec == Init /\ [][Next]_vars

\* ------------------------------------------------------- another process
MaxEnvOps == 1
\* What the other process writes.
EnvData == <<"a", "e">>

Running == pc \notin {"done", "raised", "exit", "idle"}

envFrame == <<fs0, cli, tty, tui, findings, pc, selected, replacements, gi, applyVars, log,
              pureVars>>

\* Another process unlinks a target.
EnvRemove ==
    /\ Running /\ envOps < MaxEnvOps
    /\ \E p \in TargetPaths :
          /\ fs.names[p].kind = "file"
          /\ fs' = WithName(fs, p, NoEntry)
    /\ envOps' = envOps + 1
    /\ UNCHANGED envFrame

\* Another process rewrites a target in place.
EnvWrite ==
    /\ Running /\ envOps < MaxEnvOps
    /\ \E p \in TargetPaths :
          /\ fs.names[p].kind = "file"
          /\ fs' = WithData(fs, fs.names[p].ino, EnvData)
    /\ envOps' = envOps + 1
    /\ UNCHANGED envFrame

\* Another process renames a new file of its own over a target.
EnvReplace ==
    /\ Running /\ envOps < MaxEnvOps
    /\ \E p \in TargetPaths :
          /\ fs.names[p].kind = "file"
          /\ fs' = [names |-> [fs.names EXCEPT ![p] = FileEntry(Len(fs.inodes) + 1)],
                    inodes |-> Append(fs.inodes, Node(EnvData, "0644", "other", TRUE))]
    /\ envOps' = envOps + 1
    /\ UNCHANGED envFrame

\* The runs raced: a placeholder UTF-8 can encode, so that nothing but the
\* other process disturbs the run.
InitRace ==
    /\ Init
    /\ Encodable(cli.placeholder)

NextRace == Next \/ EnvRemove \/ EnvWrite \/ EnvReplace

SpecRace == InitRace /\ [][NextRace]_vars

\* The run under --no-confirm and without --dry-run (validation, planning
\* and commit, no console and no prompt), secrets masked with asterisks,
\* beside a process that puts a whole new content in a target, in place or
\* by a rename.
InitStale ==
    /\ InitRace
    /\ cli = [placeholder |-> <<>>, no_confirm |-> TRUE, dry_run |-> FALSE]
    /\ fs.names["ln"] = LinkEntry("f1")

NextStale ==
    \/ RunTui
    \/ ValidateIslink
    \/ ValidateIsfile
    \/ ValidateStat
    \/ ReadAndRedact
    \/ Planned
    \/ DryRunOrApply
    \/ ApplyMkstemp
    \/ ApplyWrite
    \/ ApplyStat
    \/ ApplyChmod
    \/ ApplyChown
    \/ ApplyReplace
    \/ ApplyCleanup
    \/ EnvWrite
    \/ EnvReplace

SpecStale == InitStale /\ [][NextStale]_vars

\* ------------------------------------------------------ claims on the run
\* The paths the planner was given.
PlannedPaths == {selected[i].file_path : i \in 1..Len(selected)}
RenamedPaths == {log.renamed[i] : i \in 1..Len(log.renamed)}

\* C3: at every point of apply_redactions, whichever step fails, each
\* target reads as what it held before the call or as the whole redacted
\* text of its entry.
C3_CommitAtomic ==
    \A k \in 1..Len(replacements) :
        \/ ContentAt(fs, replacements[k].file_path) = ContentAt(fs0, replacements[k].file_path)
        \/ ContentAt(fs, replacements[k].file_path) = replacements[k].redacted

\* The write of the second entry's temporary file failed part way, after
\* the first entry was renamed into place.
C3_Witness ==
    /\ pc = "cleanup" /\ exc = "OSError"
    /\ ai = 2 /\ Len(log.renamed) = 1
    /\ Len(fs.inodes[fs.names[tmp].ino].data) > 0
    /\ Len(fs.inodes[fs.names[tmp].ino].data) < Len(Target.redacted)
    /\ ContentAt(fs, replacements[1].file_path) = replacements[1].redacted
    /\ ContentAt(fs, Target.file_path) = Target.original

\* A path the planner skips: a symbolic link, not a regular file,
\* unreadable, or not UTF-8.
Skipped(f, p) ==
    \/ islink(f, p)
    \/ ~isfile(f, p)
    \/ ~NodeOf(f, p).readable
    \/ ~Decodable(NodeOf(f, p).data)

WithoutPath(l, p) == SelectSeq(l, LAMBDA f : f.file_path # p)

\* C5: generate_replacements returns no entry for a path it skips, and what
\* it returns is what it returns for the findings of the other paths alone.
C5_SkippedFileIsolated ==
    pc = "planned" =>
        \A p \in PlannedPaths : Skipped(fs, p) =>
            /\ ~HasEntry(replacements, p)
            /\ replacements = generate_replacements(fs, WithoutPath(selected, p),
                                                    cli.placeholder)

\* The first group was skipped and the second still got its entry.
C5_Witness ==
    /\ pc = "planned"
    /\ Len(selected) = 2
    /\ Skipped(fs, selected[1].file_path)
    /\ ~islink(fs, selected[1].file_path)
    /\ Len(replacements) = 1
    /\ replacements[1].file_path = selected[2].file_path

\* C7 as stated: apply_redactions returns the number of entries renamed
\* into place, which is the number of files changed, and a failed entry
\* does not keep the entries after it from being processed.
C7_CountsRenamesAndGoesOn ==
    (log.applyCalls = 1 /\ pc \in {"done", "raised"}) =>
        /\ pc = "done"
        /\ ai = Len(replacements) + 1
        /\ count = Len(log.renamed)
        /\ count = Cardinality({p \in {"f1", "f2"} : ContentAt(fs, p) # ContentAt(fs0, p)})

\* C8 as stated: no call of generate_replacements or apply_redactions ends
\* by raising.
C8_NeverRaises == pc # "raised"

\* C9: a finding whose path is a symbolic link gets no entry, the link
\* stays, and the file it points to reads as before unless that file's own
\* path is planned too; the other paths get the entries they would get
\* alone, and those renamed into place hold their redacted text.
C9_SymlinkLeftAlone ==
    \A p \in PlannedPaths : islink(fs0, p) =>
        /\ ~HasEntry(replacements, p)
        /\ fs.names[p] = fs0.names[p]
        /\ (Resolve(fs0, p) \notin PlannedPaths \cup {NoPath}) =>
               /\ fs.names[Resolve(fs0, p)] = fs0.names[Resolve(fs0, p)]
               /\ ContentAt(fs, Resolve(fs0, p)) = ContentAt(fs0, Resolve(fs0, p))
        /\ (pc \notin {"run_tui", "tui_draw", "tui_key", "v_islink", "v_isfile", "v_stat", "read"}) =>
               \A q \in PlannedPaths \ {p} :
                   /\ EntriesOf(replacements, q)
                        = PlanGroup(fs0, q, GroupOf(selected, q), cli.placeholder)
                   /\ q \in RenamedPaths =>
                        ContentAt(fs, q) = EntriesOf(replacements, q)[1].redacted

\* A run over the link and another regular file ended with that file
\* redacted and the link's target as it was.
C9_Witness ==
    /\ pc = "done"
    /\ PlannedPaths = {"ln", "f2"}
    /\ fs0.names["ln"].to = "f1"
    /\ log.renamed = <<"f2">>
    /\ ContentAt(fs, "f2") # ContentAt(fs0, "f2")
    /\ Contains(ContentAt(fs, "f1"), RunSecret)

\* C10: under --dry-run apply_redactions is never called and the file
\* system stays as it was.
C10_DryRunTouchesNothing ==
    cli.dry_run => (log.applyCalls = 0 /\ fs = fs0)

\* A dry run with a plan ended after the operator answered y.
C10_Witness ==
    /\ cli.dry_run /\ ~cli.no_confirm
    /\ pc = "done"
    /\ log.answer = <<"y", LF>>
    /\ replacements # <<>>

\* The lines of TtyLines that are y once trimmed and lower-cased.
YesLines == {<<"y", LF>>, <<" ", "Y", " ", CR, LF>>}

\* C11: without --no-confirm, apply_redactions is called only after the
\* console returned a selection that is not empty, the plan was not empty,
\* the preview was printed and the line read at the prompt was y once
\* trimmed and lower-cased; after any other line the run is over, with
\* apply_redactions not called and the file system as it was.
C11_ApplyOnlyAfterYes ==
    ~cli.no_confirm =>
        /\ log.applyCalls > 0 =>
              /\ log.key = LF /\ selected # <<>>
              /\ replacements # <<>>
              /\ log.preview = generate_diffs(replacements, selected)
              /\ log.answer \in YesLines
        /\ (log.answer # NoLine /\ log.answer \notin YesLines) =>
              /\ pc = "done"
              /\ log.applyCalls = 0
              /\ fs = fs0

\* The operator confirmed with " Y " and a file was redacted.
C11_Witness ==
    /\ ~cli.no_confirm /\ ~cli.dry_run
    /\ pc = "done"
    /\ log.answer = <<" ", "Y", " ", CR, LF>>
    /\ log.applyCalls = 1
    /\ Len(log.renamed) = 1
    /\ fs # fs0

\* C12: in every console state a key is read in, q ends the console with
\* the empty list; and once q ended it, main has an empty selection and is
\* over, with no group planned, apply_redactions not called and the file
\* system as it was.
C12_QuitCancels ==
    /\ pc = "tui_key" =>
          /\ KeyResult("q").returned
          /\ KeyResult("q").result = <<>>
    /\ log.key = "q" =>
          /\ selected = <<>> /\ pc = "done"
          /\ gi = 0 /\ replacements = <<>>
          /\ log.applyCalls = 0 /\ log.answer = NoLine
          /\ fs = fs0

\* The operator quit a console over two findings of files that hold the
\* secret.
C12_Witness ==
    /\ log.key = "q"
    /\ pc = "done"
    /\ Len(findings) = 2
    /\ \A i \in 1..2 : /\ ~Skipped(fs, findings[i].file_path)
                       /\ Contains(ContentAt(fs, findings[i].file_path), RunSecret)

\* C13 as stated, for a file with one finding: the redacted text of its
\* entry is the text of the file as it is on disk, with each occurrence of
\* the secret replaced by the placeholder, or by as many asterisks as the
\* secret is long, and nothing else changed.
C13_OnlyOccurrencesChange ==
    \A k \in 1..Len(replacements) :
        LET path == replacements[k].file_path
            group == GroupOf(selected, path)
        IN  Len(group) = 1 =>
                replacements[k].redacted
                    = str_replace(NodeOf(fs0, path).data, group[1].secret,
                                  Replacement(group[1].secret, cli.placeholder))

\* ------------------------------------------- claims on a concurrent writer
\* C29: beside a process that replaces the whole content of targets, every
\* entry was computed from a content its file held, whole, and its target
\* reads at every moment as what it held at the start, as what the other
\* process wrote, or as the whole redacted text of the entry.
C29_StaleButWhole ==
    \A k \in 1..Len(replacements) :
        LET p == replacements[k].file_path
        IN  /\ replacements[k].original \in {ContentAt(fs0, p), ReadText(EnvData)}
            /\ ContentAt(fs, p) \in
                  {ContentAt(fs0, p), ReadText(EnvData), replacements[k].redacted}

\* The other process rewrote f1 after the planner had read it and before
\* the rename: f1 holds the redacted text of the content it had at first.
C29_Witness ==
    /\ pc = "done"
    /\ envOps = 1
    /\ fs0.names["f2"] = NoEntry
    /\ log.renamed = <<"f1">>
    /\ replacements[1].original = ContentAt(fs0, "f1")
    /\ replacements[1].original # ReadText(EnvData)
    /\ ContentAt(fs, "f1") = replacements[1].redacted

\* ------------------------------------------- claims on both links redacted
\* f1 and f2 are two names of one file that holds the secret, and both are
\* among the findings in hand.
BothLinksSelected ==
    /\ fs0.names["f1"].kind = "file" /\ fs0.names["f2"] = fs0.names["f1"]
    /\ Contains(ContentAt(fs0, "f1"), RunSecret)
    /\ {"f1", "f2"} \subseteq PlannedPaths

\* C31: with both names of a twice-linked file among the findings, planning
\* gives each an entry with the same redacted text, and once both entries
\* are committed, one after the other, each path holds that text, under an
\* inode of its own, and two files are counted.
C31_BothLinksRedacted ==
    BothLinksSelected =>
        /\ pc \in {"planned", "confirm", "dry_run", "mkstemp", "write", "stat", "chmod",
                   "chown", "replace", "cleanup"} =>
              /\ HasEntry(replacements, "f1") /\ HasEntry(replacements, "f2")
              /\ EntriesOf(replacements, "f1")[1].redacted
                     = EntriesOf(replacements, "f2")[1].redacted
              /\ ~Contains(EntriesOf(replacements, "f1")[1].redacted, RunSecret)
        /\ {"f1", "f2"} \subseteq RenamedPaths =>
              /\ ContentAt(fs, "f1") = EntriesOf(replacements, "f1")[1].redacted
              /\ ContentAt(fs, "f2") = EntriesOf(replacements, "f2")[1].redacted
              /\ fs.names["f1"].ino # fs.names["f2"].ino
              /\ count = 2

\* Both names were committed, f1 first.
C31_Witness ==
    /\ pc = "done"
    /\ BothLinksSelected
    /\ log.renamed = <<"f1", "f2">>
    /\ count = 2
    /\ ~Contains(ContentAt(fs, "f1"), RunSecret)
    /\ ~Contains(ContentAt(fs, "f2"), RunSecret)

\* ------------------------------------------------ claims on temporary files
\* C30: when apply_redactions has returned, no temporary file is left:
\* none of the names mkstemp draws from is in the directory.
C30_NoTempLeft ==
    (pc = "done" /\ log.applyCalls > 0) =>
        \A q \in TmpPaths : fs.names[q] = NoEntry

\* ---------------------------------------------------- claims on the console
InConsole == pc \in {"tui_draw", "tui_key"}

\* C17: in every console state 0 <= cursor <= n-1; the move-up keys give
\* max(0, cursor-1), the move-down keys min(n-1, cursor+1), and every other
\* key leaves the cursor where it is.
C17_CursorInRange ==
    InConsole =>
        LET n == Len(findings)
            c == tui.cursor
        IN  /\ n >= 1
            /\ 0 <= c /\ c <= n - 1
            /\ \A key \in Keys :
                  KeyResult(key).cursor =
                      IF key \in {KEY_UP, "k"} THEN (IF c = 0 THEN 0 ELSE c - 1)
                      ELSE IF key \in {KEY_DOWN, "j"}
                           THEN (IF c = n - 1 THEN n - 1 ELSE c + 1)
                      ELSE c

\* The cursor was moved to the last of two findings, where move-down stays.
C17_Witness ==
    /\ pc = "tui_key"
    /\ Len(findings) = 2
    /\ tui.cursor = 1
    /\ KeyResult(KEY_DOWN).cursor = 1
    /\ KeyResult("k").cursor = 0

\* The indices of the findings whose flag is set, and the k-th of them.
Flagged == {i \in 1..Len(tui.selected) : tui.selected[i]}
NthFlagged(k) == CHOOSE i \in Flagged : Cardinality({j \in Flagged : j < i}) = k - 1

\* C18: in every console state there is one flag per finding, and the
\* confirm key ends the console with the findings whose flag is set, each
\* once, in input order.
C18_ConfirmReturnsFlagged ==
    InConsole =>
        LET r == KeyResult(LF)
        IN  /\ Len(tui.selected) = Len(findings)
            /\ r.returned
            /\ Len(r.result) = Cardinality(Flagged)
            /\ \A k \in 1..Len(r.result) : r.result[k] = findings[NthFlagged(k)]

\* The first of two findings was deselected: confirm returns the second.
C18_Witness ==
    /\ pc = "tui_key"
    /\ tui.selected = <<FALSE, TRUE>>
    /\ KeyResult(LF).result = <<findings[2]>>

\* C19: the console opens with scroll offset 0, and before its first key
\* it has cursor 0, secrets masked and every finding selected, so that
\* confirm there returns the whole input list.
C19_InitialConsole ==
    (InConsole /\ ~log.keyed) =>
        /\ pc = "tui_draw" => tui.top = 0
        /\ tui.cursor = 0 /\ tui.reveal = FALSE
        /\ Len(tui.selected) = Len(findings)
        /\ \A i \in 1..Len(findings) : tui.selected[i]
        /\ KeyResult(LF).returned
        /\ KeyResult(LF).result = findings

\* The console of two findings waits for its first key.
C19_Witness ==
    /\ pc = "tui_key"
    /\ ~log.keyed
    /\ Len(findings) = 2
    /\ tui.selected = <<TRUE, TRUE>>
    /\ KeyResult(LF).result = findings

AllFlags(selected_, b) == \A i \in 1..Len(selected_) : selected_[i] = b

\* C20: where every finding is selected, toggle-all deselects every one
\* and a second toggle-all selects every one again; where one at least is
\* deselected, toggle-all selects every one.
C20_ToggleAllRoundTrip ==
    InConsole =>
        LET once == KeyResult("a")
            twice == handle_key("a", findings, once.selected, once.cursor, once.reveal)
        IN  /\ Len(once.selected) = Len(findings)
            /\ ~once.returned
            /\ IF AllFlags(tui.selected, TRUE)
               THEN /\ AllFlags(once.selected, FALSE)
                    /\ Len(twice.selected) = Len(findings)
                    /\ AllFlags(twice.selected, TRUE)
               ELSE AllFlags(once.selected, TRUE)

\* One of two findings is deselected, and toggle-all selects both.
C20_Witness ==
    /\ pc = "tui_key"
    /\ tui.selected = <<TRUE, FALSE>>
    /\ KeyResult("a").selected = <<TRUE, TRUE>>

\* C21: toggle-category with the cursor on a finding of detector C
\* deselects every finding of C if all of them are selected, selects every
\* one of them otherwise, and leaves the flag of every finding of another
\* detector as it is.
C21_ToggleCategory ==
    InConsole =>
        LET C == findings[tui.cursor + 1].detector_name
            ofC == {i \in 1..Len(findings) : findings[i].detector_name = C}
            r == KeyResult("t")
        IN  /\ ~r.returned
            /\ Len(r.selected) = Len(findings)
            /\ \A i \in (1..Len(findings)) \ ofC : r.selected[i] = tui.selected[i]
            /\ IF \A i \in ofC : tui.selected[i]
               THEN \A i \in ofC : r.selected[i] = FALSE
               ELSE \A i \in ofC : r.selected[i] = TRUE

\* Two findings of one detector, the second deselected: toggle-category
\* selects both.
C21_Witness ==
    /\ pc = "tui_key"
    /\ Len(findings) = 2
    /\ findings[1].detector_name = findings[2].detector_name
    /\ tui.selected = <<TRUE, FALSE>>
    /\ KeyResult("t").selected = <<TRUE, TRUE>>

\* C22: toggle-current flips the flag at the cursor and nothing else;
\* toggle-reveal flips reveal and nothing else; a key outside the table
\* changes nothing; none of the three ends the console.
C22_KeyFrames ==
    InConsole =>
        LET sp == KeyResult(" ")
            rv == KeyResult("r")
            un == KeyResult("x")
        IN  /\ ~sp.returned /\ sp.cursor = tui.cursor /\ sp.reveal = tui.reveal
            /\ Len(sp.selected) = Len(tui.selected)
            /\ \A i \in 1..Len(tui.selected) :
                  sp.selected[i] = IF i = tui.cursor + 1 THEN ~tui.selected[i]
                                   ELSE tui.selected[i]
            /\ ~rv.returned /\ rv.cursor = tui.cursor /\ rv.selected = tui.selected
            /\ rv.reveal = ~tui.reveal
            /\ ~un.returned /\ un.cursor = tui.cursor /\ un.selected = tui.selected
            /\ un.reveal = tui.reveal

\* The cursor is on the first of two findings, the second is deselected and
\* the secrets are revealed: the three keys have something to leave alone.
C22_Witness ==
    /\ pc = "tui_key"
    /\ tui.cursor = 0
    /\ tui.selected = <<TRUE, FALSE>>
    /\ tui.reveal = TRUE
    /\ KeyResult(" ").selected = <<FALSE, FALSE>>
    /\ KeyResult("r").reveal = FALSE

\* C24: without a terminal (and without --no-confirm) no console state is
\* made, no key is read, and run_tui's result is the empty selection, on
\* which main ends.
C24_NoTtyNoConsole ==
    (~tty /\ ~cli.no_confirm) =>
        /\ tui = NoTui /\ ~InConsole
        /\ log.key = NoKey /\ ~log.keyed
        /\ selected = <<>>
        /\ pc \in {"run_tui", "done"}

\* run_tui returned without a terminal, findings in hand.
C24_Witness ==
    /\ pc = "done"
    /\ ~tty /\ ~cli.no_confirm
    /\ Len(findings) = 2
    /\ selected = <<>>
    /\ fs = fs0

\* ----------------------------------------- claims on links and permissions
\* C15: after the one entry of a mapping was committed for a path whose file
\* has a second hard link, the path holds the redacted text, the other link
\* is the name of the inode it was, with the bytes it had, and the two names
\* are of different inodes.
C15_HardLinkSplit ==
    \A p, q \in {"f1", "f2"} :
        (/\ p # q
         /\ fs0.names[p].kind = "file" /\ fs0.names[q].kind = "file"
         /\ fs0.names[p].ino = fs0.names[q].ino
         /\ Len(replacements) = 1 /\ replacements[1].file_path = p
         /\ p \in RenamedPaths) =>
            /\ ContentAt(fs, p) = replacements[1].redacted
            /\ fs.names[q] = fs0.names[q]
            /\ NodeOf(fs, q).data = NodeOf(fs0, q).data
            /\ fs.names[p].kind = "file"
            /\ fs.names[p].ino # fs.names[q].ino

\* f2 was redacted while f1 was a second name of its inode.
C15_Witness ==
    /\ pc = "done"
    /\ fs0.names["f2"] = fs0.names["f1"]
    /\ Len(replacements) = 1
    /\ log.renamed = <<"f2">>
    /\ ~Contains(ContentAt(fs, "f2"), RunSecret)
    /\ Contains(ContentAt(fs, "f1"), RunSecret)

\* C16: a path that was renamed into place has the permission bits it had
\* before; and a chown refused for lack of privilege is never the exception
\* an entry fails with, so that every entry that gets to the rename is
\* counted.
C16_ModeKeptChownBestEffort ==
    /\ \A k \in 1..Len(log.renamed) :
          NodeOf(fs, log.renamed[k]).mode = NodeOf(fs0, log.renamed[k]).mode
    /\ exc # "PermissionError"
    /\ pc \in {"mkstemp", "write", "stat", "chmod", "chown", "replace", "cleanup"} =>
          count = Len(log.renamed)

\* Both files were committed: f1 kept its 0644 (the temporary file was made
\* 0600), and f2, of another owner, is now owned by this process (the chown
\* was refused) and counted all the same.
C16_Witness ==
    /\ pc = "done"
    /\ log.renamed = <<"f1", "f2">>
    /\ count = 2
    /\ NodeOf(fs0, "f1").mode = "0644" /\ NodeOf(fs, "f1").mode = "0644"
    /\ NodeOf(fs0, "f2").uid = "other" /\ NodeOf(fs, "f2").uid = "me"
    /\ NodeOf(fs, "f2").mode = NodeOf(fs0, "f2").mode

\* ------------------------------------------------- claims on nested secrets
\* The redacted text of the file of SpecPlan: that of its entry, or the text
\* as read when there is no entry.
PlanRedacted == IF ret.first = <<>> THEN PlanText ELSE ret.first[1].redacted

\* Position k of the text lies in some occurrence of B.
InOccurrence(text, B, k) ==
    \E j \in 1..Len(text) : IsOccAt(text, B, j) /\ j <= k /\ k < j + Len(B)

\* The text with B replaced wherever it occurs, and A replaced where its
\* occurrence lies outside every occurrence of B.
RECURSIVE OutsideAllReplaced(_, _, _, _, _, _)
OutsideAllReplaced(text, A, B, repA, repB, i) ==
    IF i > Len(text) THEN <<>>
    ELSE IF IsOccAt(text, B, i)
         THEN repB \o OutsideAllReplaced(text, A, B, repA, repB, i + Len(B))
    ELSE IF /\ IsOccAt(text, A, i)
            /\ \A k \in i..(i + Len(A) - 1) : ~InOccurrence(text, B, k)
         THEN repA \o OutsideAllReplaced(text, A, B, repA, repB, i + Len(A))
    ELSE <<text[i]>> \o OutsideAllReplaced(text, A, B, repA, repB, i + 1)

\* The text with the occurrences of B, taken from the left without overlap,
\* replaced, and between them the occurrences of A, taken the same way.
RECURSIVE BetweenReplaced(_, _, _, _, _, _)
BetweenReplaced(text, A, B, repA, repB, i) ==
    IF i > Len(text) THEN <<>>
    ELSE IF IsOccAt(text, B, i)
         THEN repB \o BetweenReplaced(text, A, B, repA, repB, i + Len(B))
    ELSE IF /\ IsOccAt(text, A, i)
            /\ \A j \in (i + 1)..(i + Len(A) - 1) : ~IsOccAt(text, B, j)
         THEN repA \o BetweenReplaced(text, A, B, repA, repB, i + Len(A))
    ELSE <<text[i]>> \o BetweenReplaced(text, A, B, repA, repB, i + 1)

\* The call has two findings, A = secret i a proper substring of B = secret j.
ProperPair(i, j) ==
    /\ Len(arg.findings) = 2 /\ i # j
    /\ Len(arg.findings[i].secret) < Len(arg.findings[j].secret)
    /\ Contains(arg.findings[j].secret, arg.findings[i].secret)

C34_MaskKeepsPositions ==
    (ret.stage = "planned" /\ arg.placeholder = <<>>) =>
        \A k \in 1..Len(ret.first) :
            LET e == ret.first[k]
            IN  /\ Len(e.redacted) = Len(e.original)
                /\ \A i \in 1..Len(e.original) :
                      e.redacted[i] = e.original[i] \/ e.redacted[i] = Star

\* A secret of two characters was masked in a text of three.
C34_Witness ==
    /\ ret.stage = "planned"
    /\ arg.placeholder = <<>>
    /\ arg.content = <<"a", "a", "a">>
    /\ arg.findings = <<Finding(PlanPath, <<"a", "a">>, "Generic")>>
    /\ PlanRedacted = <<Star, Star, "a">>

\* ------------------------------------ claims on the order of the findings
\* The planner's result for another list of findings on the file of SpecPlan.
PlanFor(findings_) ==
    generate_replacements(OneFileFs(PlanPath, arg.content), findings_, arg.placeholder)

\* The orders a list of n findings can be put in.
Orders(n) == {o \in [1..n -> 1..n] : \A i, j \in 1..n : o[i] = o[j] => i = j}
Reordered(findings_, o) == [i \in 1..Len(findings_) |-> findings_[o[i]]]

\* C27: the planner returns the same mapping for every order of the
\* findings, and every finding is in the group of its file_path and in no
\* other group.
C27_OrderNotSignificant ==
    ret.stage = "planned" =>
        /\ \A o \in Orders(Len(arg.findings)) :
              PlanFor(Reordered(arg.findings, o)) = ret.first
        /\ \A i \in 1..Len(arg.findings) :
              \A k \in 1..Len(GroupKeys(arg.findings)) :
                  LET group == GroupOf(arg.findings, GroupKeys(arg.findings)[k])
                  IN  (\E j \in 1..Len(group) : group[j] = arg.findings[i])
                          <=> GroupKeys(arg.findings)[k] = arg.findings[i].file_path

\* The list with a second finding of the secret of finding i, under another
\* detector name, put in after the first k findings.
WithDuplicate(findings_, i, k) ==
    SubSeq(findings_, 1, k)
    \o <<Finding(findings_[i].file_path, findings_[i].secret, "AWS")>>
    \o SubSeq(findings_, k + 1, Len(findings_))

\* C28: a second finding of a secret, wherever it is added, leaves the
\* mapping as it is.
C28_DuplicateHarmless ==
    ret.stage = "planned" =>
        \A i \in 1..Len(arg.findings) : \A k \in 0..Len(arg.findings) :
            PlanFor(WithDuplicate(arg.findings, i, k)) = ret.first

\* -------------------------------- the scroll adjustment, checked on its own
MaxRows == 4

\* What the redraw hands to _adjust_scroll: a cursor on one of the findings,
\* the offset the last redraw left, and a terminal height in which the
\* header and the status bar can be drawn.
ScrollInit ==
    /\ MainIdle
    /\ arg \in [fn : {"_adjust_scroll"},
                cursor : 0..(MaxRows - 1),
                top : 0..MaxRows,
                max_y : HEADER_ROWS..(HEADER_ROWS + BOTTOM_RESERVE + MaxRows)]
    /\ ret = [stage |-> "start", top |-> 0]

\* tui.py:47-53: visible = max_y - list_start - _BOTTOM_RESERVE;
\* top = _adjust_scroll(cursor, top, visible)
ScrollCall ==
    /\ ret.stage = "start"
    /\ ret' = [stage |-> "scrolled",
               top |-> adjust_scroll(arg.cursor, arg.top,
                                     arg.max_y - HEADER_ROWS - BOTTOM_RESERVE)]
    /\ UNCHANGED <<mainVars, arg>>

ScrollNext == ScrollCall

SpecScroll == ScrollInit /\ [][ScrollNext]_vars

\* C23: after the adjustment the offset is not negative, the cursor is
\* inside the window that starts there, and the offset is the one it was
\* wherever the cursor was inside the window already.
C23_CursorInWindow ==
    ret.stage = "scrolled" =>
        LET visible == arg.max_y - HEADER_ROWS - BOTTOM_RESERVE
        IN  /\ ret.top >= 0
            /\ ret.top <= arg.cursor /\ arg.cursor < ret.top + visible
            /\ (arg.top <= arg.cursor /\ arg.cursor < arg.top + visible) =>
                  ret.top = arg.top

\* ----------------------------------------- the secret mask, checked on its own
MaxMaskLen == 5
MaxMaskVisible == 2

MaskInit ==
    /\ MainIdle
    /\ arg \in [fn : {"mask_secret"},
                secret : StringsUpTo({"a", "b"}, MaxMaskLen),
                visible : 0..MaxMaskVisible]
    /\ ret = [stage |-> "start", masked |-> <<>>]

MaskCall ==
    /\ ret.stage = "start"
    /\ ret' = [stage |-> "masked", masked |-> mask_secret(arg.secret, arg.visible)]
    /\ UNCHANGED <<mainVars, arg>>

MaskNext == MaskCall

SpecMask == MaskInit /\ [][MaskNext]_vars

\* C25: the mask is as long as the secret; all asterisks when the secret is
\* no longer than 2 * visible; otherwise the first visible characters, then
\* len - 2 * visible asterisks, then the last visible characters.
C25_MaskShape ==
    ret.stage = "masked" =>
        LET n == Len(arg.secret)
            v == arg.visible
        IN  /\ Len(ret.masked) = n
            /\ \A i \in 1..n :
                  ret.masked[i] =
                      IF n <= 2 * v THEN Star
                      ELSE IF i <= v \/ i > n - v THEN arg.secret[i]
                      ELSE Star

\* ------------------------------------ the path truncation, checked on its own
MaxPathLen == 5
MaxWidth == 6

\* tui.py:17
ELLIPSIS == <<".", ".", ".">>

\* tui.py:186-193.  path[:max_width], path[:side] and path[-(...):] are
\* Python slices.
truncate_path(path, max_width) ==
    IF Len(path) <= max_width THEN path
    ELSE IF max_width <= Len(ELLIPSIS) THEN SliceTo(path, max_width)
    ELSE LET side == (max_width - Len(ELLIPSIS)) \div 2
         IN  SliceTo(path, side) \o ELLIPSIS
             \o SliceLast(path, max_width - Len(ELLIPSIS) - side)

TruncInit ==
    /\ MainIdle
    /\ arg \in [fn : {"_truncate_path"},
                path : StringsUpTo({"a", "b"}, MaxPathLen),
                max_width : 0..MaxWidth]
    /\ ret = [stage |-> "start", text |-> <<>>]

TruncCall ==
    /\ ret.stage = "start"
    /\ ret' = [stage |-> "truncated", text |-> truncate_path(arg.path, arg.max_width)]
    /\ UNCHANGED <<mainVars, arg>>

TruncNext == TruncCall

SpecTrunc == TruncInit /\ [][TruncNext]_vars

\* C32: the result is no longer than max_width; a path that fits comes back
\* as it is; a longer path, when max_width > 3, comes back as a non-empty
\* prefix of it, the ellipsis, and a non-empty suffix of it.
C32_EllipsisInTheMiddle ==
    ret.stage = "truncated" =>
        LET n == Len(arg.path)
            w == arg.max_width
        IN  /\ Len(ret.text) <= w
            /\ n <= w => ret.text = arg.path
            /\ (n > w /\ w > 3) =>
                  \E i, j \in 1..n :
                      ret.text = SubSeq(arg.path, 1, i) \o ELLIPSIS
                                 \o SubSeq(arg.path, n - j + 1, n)

\* -------------------------------------------- the parser, checked on its own
MaxLines == 2

NUL == "<0x00>"

\* A JSON value as the parser tells them apart: a string with its text, or
\* something that is not a string (a number, a list, an object, null).
Str(text) == [type |-> "str", text |-> text]
NotStr == [type |-> "other", text |-> <<>>]

\* One line of the stream: blank after strip(), not JSON, JSON that is not
\* an object, or an object with what obj.get("Raw", ""), the chain of gets
\* down to "file" and obj.get("DetectorName", "Unknown") give (a missing key
\* gives the default, the empty string for Raw and file).
Line(kind, raw, file, detector) ==
    [kind |-> kind, raw |-> raw, file |-> file, detector |-> detector]
RawValues == {Str(<<"a">>), Str(<<"b">>), Str(<<>>), NotStr}
FileValues == {Str(<<"f">>), Str(<<"g">>), Str(<<>>), Str(<<"f", NUL>>), NotStr}
DetectorValues == {"AWS", "Unknown"}
StreamLines ==
    {Line(k, Str(<<>>), Str(<<>>), "Unknown") : k \in {"blank", "bad", "notdict"}}
    \cup {Line("obj", r, f, d) : r \in RawValues, f \in FileValues, d \in DetectorValues}

RECURSIVE Streams(_)
Streams(n) ==
    IF n = 0 THEN {<<>>}
    ELSE Streams(n - 1)
         \cup {Append(t, l) : t \in {u \in Streams(n - 1) : Len(u) = n - 1},
                              l \in StreamLines}

\* parser.py:57-65
valid_finding(raw, file_path) ==
    /\ raw.type = "str"
    /\ file_path.type = "str"
    /\ raw.text # <<>>
    /\ file_path.text # <<>>
    /\ NUL \notin Chars(file_path.text)

\* A key that tells two findings of one pair apart by their detector.
DedupKeyWithDetector(line) == <<line.file.text, line.raw.text, line.detector>>

\* parser.py:45: key = (file_path, raw)
DedupKey(line) == <<line.file.text, line.raw.text>>

\* parser.py:24-54, from line i on: blank lines and lines that are not JSON
\* are passed over (25-31); obj.get on JSON that is not an object raises
\* AttributeError (33); invalid and seen findings are passed over (42-47).
RECURSIVE ParseFrom(_, _, _, _)
ParseFrom(lines, i, seen, found) ==
    IF i > Len(lines) THEN [raised |-> FALSE, findings |-> found]
    ELSE LET line == lines[i]
         IN  CASE line.kind \in {"blank", "bad"} -> ParseFrom(lines, i + 1, seen, found)
               [] line.kind = "notdict" -> [raised |-> TRUE, findings |-> <<>>]
               [] OTHER ->
                    IF ~valid_finding(line.raw, line.file)
                    THEN ParseFrom(lines, i + 1, seen, found)
                    ELSE IF DedupKey(line) \in seen
                    THEN ParseFrom(lines, i + 1, seen, found)
                    ELSE ParseFrom(lines, i + 1, seen \cup {DedupKey(line)},
                                   Append(found, Finding(line.file.text, line.raw.text,
                                                         line.detector)))

\* parser.py:16-54
parse_findings(lines) == ParseFrom(lines, 1, {}, <<>>)

ParseInit ==
    /\ MainIdle
    /\ arg \in [fn : {"parse_findings"}, lines : Streams(MaxLines)]
    /\ ret = [stage |-> "start", findings |-> <<>>]

ParseCall ==
    /\ ret.stage = "start"
    /\ LET r == parse_findings(arg.lines)
       IN  ret' = [stage |-> IF r.raised THEN "raised" ELSE "parsed",
                   findings |-> r.findings]
    /\ UNCHANGED <<mainVars, arg>>

ParseNext == ParseCall

SpecParse == ParseInit /\ [][ParseNext]_vars

\* The lines that hold a usable finding, and of them those whose (file_path,
\* secret) pair no earlier usable line has.
UsableLines ==
    {i \in 1..Len(arg.lines) :
        /\ arg.lines[i].kind = "obj"
        /\ arg.lines[i].raw.type = "str" /\ Len(arg.lines[i].raw.text) > 0
        /\ arg.lines[i].file.type = "str" /\ Len(arg.lines[i].file.text) > 0
        /\ \A k \in 1..Len(arg.lines[i].file.text) : arg.lines[i].file.text[k] # NUL}
FirstLines ==
    {i \in UsableLines :
        \A j \in UsableLines :
            j < i => \/ arg.lines[j].file.text # arg.lines[i].file.text
                     \/ arg.lines[j].raw.text # arg.lines[i].raw.text}
NthFirstLine(k) == CHOOSE i \in FirstLines : Cardinality({j \in FirstLines : j < i}) = k - 1

\* C26: the returned list has no two findings of one (file_path, secret)
\* pair, is made of the first line of each pair in input order, and every
\* finding in it has a non-empty secret and a non-empty path without a null
\* byte.
C26_ParsedDedupedValid ==
    ret.stage = "parsed" =>
        LET l == ret.findings
        IN  /\ \A i, j \in 1..Len(l) :
                  (l[i].file_path = l[j].file_path /\ l[i].secret = l[j].secret) => i = j
            /\ Len(l) = Cardinality(FirstLines)
            /\ \A k \in 1..Len(l) :
                  LET line == arg.lines[NthFirstLine(k)]
                  IN  l[k] = Finding(line.file.text, line.raw.text, line.detector)
            /\ \A k \in 1..Len(l) :
                  /\ l[k].secret # <<>>
                  /\ l[k].file_path # <<>>
                  /\ ~Contains(l[k].file_path, <<NUL>>)

\* Two lines of one pair under two detector names: the first is returned.
C26_Witness ==
    /\ ret.stage = "parsed"
    /\ Len(arg.lines) = 2
    /\ arg.lines[1] = Line("obj", Str(<<"a">>), Str(<<"f">>), "AWS")
    /\ arg.lines[2] = Line("obj", Str(<<"a">>), Str(<<"f">>), "Unknown")
    /\ ret.findings = <<Finding(<<"f">>, <<"a">>, "AWS")>>

\* ------------------------------------- the diff renderer, checked on its own
MaxDiffPieces == 3

\* Secrets longer than twice MaskVisible (one holding "*", one that overlaps
\* itself, one plain) and a short one.
DiffSecrets ==
    {<<"a", "b", "c", "d", Star, "e", "f", "g", "h">>,
     <<"a", "b", "c", "d", "x", "x", "a", "b", "c", "d">>,
     <<"a", "b", "c", "d", "e", "f", "g", "h", "i">>,
     <<"e", "f", "g", "h">>}
\* The pieces file contents are put together from.
DiffPieces == DiffSecrets \cup {<<"x", "x", "a", "b", "c", "d">>, <<"x">>, <<LF>>}

RECURSIVE Concatenations(_, _)
Concatenations(pieces, n) ==
    IF n = 0 THEN {<<>>}
    ELSE Concatenations(pieces, n - 1)
         \cup {t \o piece : t \in Concatenations(pieces, n - 1), piece \in pieces}

DiffInit ==
    /\ MainIdle
    /\ arg \in [fn : {"generate_diffs"},
                content : Concatenations(DiffPieces, MaxDiffPieces),
                findings : FindingLists(PlanPath, DiffSecrets, MaxFindings) \ {<<>>},
                placeholder : {<<>>, <<"#">>}]
    /\ ret = [stage |-> "start", replacements |-> <<>>, diff |-> <<>>]

\* generate_diffs(generate_replacements(findings, placeholder), findings), as
\* main calls it (cli.py:72-78).
DiffCall ==
    /\ ret.stage = "start"
    /\ LET planned == generate_replacements(OneFileFs(PlanPath, arg.content),
                                            arg.findings, arg.placeholder)
       IN  ret' = [stage |-> "diffed", replacements |-> planned,
                   diff |-> generate_diffs(planned, arg.findings)]
    /\ UNCHANGED <<mainVars, arg>>

DiffNext == DiffCall

SpecDiff == DiffInit /\ [][DiffNext]_vars

\* C4 as stated: with findings supplied, the diff text holds no whole
\* secret of a finding whose file has an entry.
C4_DiffHoldsNoSecret ==
    ret.stage = "diffed" =>
        \A i \in 1..Len(arg.findings) :
            HasEntry(ret.replacements, arg.findings[i].file_path) =>
                ~Contains(ret.diff, arg.findings[i].secret)

\* ------------------------------- the interactive preview, checked on its own
\* What was parsed for the file, and for each finding whether the operator
\* left it selected when the console was confirmed.
PreviewInit ==
    /\ MainIdle
    /\ arg \in [fn : {"main"},
                content : Concatenations(DiffPieces, MaxDiffPieces),
                findings : FindingLists(PlanPath, DiffSecrets, MaxFindings) \ {<<>>},
                flags : [1..MaxFindings -> BOOLEAN],
                placeholder : {<<>>, <<"#">>}]
    /\ ret = [stage |-> "start", replacements |-> <<>>, diff |-> <<>>]

\* cli.py:66-80: selected = run_tui(findings), here the flagged findings;
\* nothing selected or nothing to change ends the run; else the preview is
\* generate_diffs(replacements, findings=selected).
PreviewCall ==
    /\ ret.stage = "start"
    /\ LET selected_ == ConfirmResult(arg.findings, arg.flags)
           planned == generate_replacements(OneFileFs(PlanPath, arg.content),
                                            selected_, arg.placeholder)
       IN  ret' = IF selected_ = <<>> \/ planned = <<>>
                  THEN [stage |-> "ended", replacements |-> planned, diff |-> <<>>]
                  ELSE [stage |-> "previewed", replacements |-> planned,
                        diff |-> generate_diffs(planned, selected_)]
    /\ UNCHANGED <<mainVars, arg>>

PreviewNext == PreviewCall

SpecPreview == PreviewInit /\ [][PreviewNext]_vars

\* C33: the preview shown before the prompt holds no whole secret of a
\* finding parsed for a previewed file, selected in the console or not.
C33_PreviewHoldsNoParsedSecret ==
    ret.stage = "previewed" =>
        \A i \in 1..Len(arg.findings) :
            HasEntry(ret.replacements, arg.findings[i].file_path) =>
                ~Contains(ret.diff, arg.findings[i].secret)

====
